---- MODULE Spec2Model ----
(***************************************************************************)
(* The job submission and progress-polling workflow of the HealthScribe    *)
(* demo: the NewConversation component (its form state, the submit         *)
(* control, and the asynchronous submitJob handler) together with the      *)
(* notification sink it posts to.                                          *)
(*                                                                         *)
(* src/src/components/NewConversation/NewConversation.tsx holds two        *)
(* variants of the component (lines 1-336 and lines 338-664).  They differ *)
(* in the notification ids, in the polling counter (10,+5,90 against       *)
(* 5,+3,95) and in whether the job-name input is rendered.  `variant`      *)
(* selects one of them for a whole behaviour.                              *)
(*                                                                         *)
(* submitJob is an async function: between two awaits it runs atomically,  *)
(* so there is one action per segment between awaits.  Every run of        *)
(* submitJob has a frame holding what its closure captured (jobName,       *)
(* filePath), its local `progress`, its position, and the trace of what it *)
(* did (calls, returns, throws, posts, state setters) in program order.    *)
(***************************************************************************)
EXTENDS Integers, Sequences, FiniteSets, TLC

VARIABLES
    variant,        \* 1: lines 1-336, 2: lines 338-664 of NewConversation.tsx
    isSubmitting,   \* useState<boolean>(false)
    formError,      \* useState('')
    jobName,        \* useState(generateFilename())
    audioSelection, \* useState<AudioSelection>('speakerPartitioning')
    audioDetails,   \* useState<AudioDetails>({...})
    filePath,       \* useState<File>(), the single upload slot
    recordedAudio,  \* useState<File | undefined>()
    flashbarItems,  \* the notification sink's ordered entries
    runs,           \* frames of the submitJob runs in flight or last finished
    attempts        \* one entry per submit: job name and how it ended

vars == <<variant, isSubmitting, formError, jobName, audioSelection, audioDetails,
          filePath, recordedAudio, flashbarItems, runs, attempts>>

---------------------------------------------------------------------------
(* Bounds of the model *)

MaxAttempts == 2
MaxPolls == 1
MaxDeepPolls == 32
MaxUploadEvents == 1
MaxFileSize == 4
MaxSpeakers == 3
MaxLoaded == 128
MaxLivePolls == 2

(* Program constants *)

ProgressStart1 == 10
ProgressStep1 == 5
ProgressCeiling1 == 90
ProgressStart2 == 5
ProgressStep2 == 3
ProgressCeiling2 == 95
SubmittedValue == 20
UploadScale == 99
DefaultTotal == 100
DefaultLoaded == 1
DefaultMaxSpeakers == 2
PollDelay == 5000
SuccessDelay == 500

---------------------------------------------------------------------------
(* Values *)

NoFile == "undefined"
NoStatus == "undefined"
NoError == "none"

\* generateFilename(): `session-${uuidv4()}`, a name uuidv4 can give.
GeneratedNames == {"session-1"}
\* what the user can type into the job-name input (variant 1 only)
TypedNames == {"typed"}

RecordedFiles == {"rec.wav"}
SelectedFiles == {"sel.mp3"}
\* the File objects of one recording and of the next one
Recordings == RecordedFiles \cup {"rec2.wav"}

\* File.size: a recording has bytes, the dropped file is an empty file.
FileSize(f) == IF f \in Recordings THEN MaxFileSize ELSE 0

ErrorMessages == {"Network Error", "Timeout"}

\* What startMedicalScribeJob's response can carry at
\* data.MedicalScribeJob.MedicalScribeJobStatus.
StartStatuses == {"SUBMITTED", "", NoStatus}
\* What getHealthScribeJob's response can carry there.
JobStatuses == {"IN_PROGRESS", "COMPLETED", "FAILED"}

\* type AudioSelection and the roles of a channel
AudioSelections == {"speakerPartitioning", "channelIdentification"}
ParticipantRoles == {"CLINICIAN", "PATIENT"}

\* type AudioDetails
AudioDetailsOf(maxSpeakers, channel1) ==
    [speakerPartitioning |-> [maxSpeakers |-> maxSpeakers],
     channelIdentification |-> [channel1 |-> channel1]]

\* the initial values of the two form settings
DefaultAudioSelection == "speakerPartitioning"
DefaultAudioDetails == AudioDetailsOf(DefaultMaxSpeakers, "CLINICIAN")

\* JavaScript truthiness of an optional string
Truthy(s) == s # NoStatus /\ s # ""

---------------------------------------------------------------------------
(* Collaborators that are not under src/ *)

\* verifyJobParams(jobParams): { verified, message }.  Its rules are not
\* part of the sources; any outcome is possible for any payload.
VerifyResults ==
    {[verified |-> TRUE, message |-> ""],
     [verified |-> FALSE, message |-> "invalid job parameters"]}

RECURSIVE IndexOfId(_, _, _)
IndexOfId(items, id, i) ==
    IF i > Len(items) THEN 0
    ELSE IF items[i].id = id THEN i
    ELSE IndexOfId(items, id, i + 1)

\* updateProgressBar that always appends
updateProgressBarAppend(items, n) == Append(items, n)

\* updateProgressBar: upsert by id, replace in place or append.
updateProgressBar(items, n) ==
    LET i == IndexOfId(items, n.id, 1)
    IN  IF i = 0 THEN Append(items, n) ELSE [items EXCEPT ![i] = n]

\* The (loaded) values multipartUpload reports for a body: non-decreasing,
\* nothing yet or the whole body.
LoadedValues(f) == {0, FileSize(f)}

---------------------------------------------------------------------------
(* Trace events and notifications *)

Ev(kind, what, data) == [kind |-> kind, what |-> what, data |-> data]
Call(api, arg) == Ev("call", api, arg)
Return(api, v) == Ev("return", api, v)
Throw(api, msg) == Ev("throw", api, msg)
Set(var, v) == Ev("set", var, v)

Notif(id, type, value, description, info) ==
    [id |-> id, type |-> type, value |-> value,
     description |-> description, additionalInfo |-> info]

Post(n) == Ev("post", "updateProgressBar", n)

IsPost(e) == e.kind = "post"
IsCall(e, api) == e.kind = "call" /\ e.what = api

\* how many elements of s satisfy P
Count(s, P(_)) == Cardinality({i \in DOMAIN s : P(s[i])})

Calls(f, api) == Count(f.trace, LAMBDA e: IsCall(e, api))

\* the index of the first element of s that satisfies P, 0 if there is none
FirstIndex(s, P(_)) ==
    IF \E i \in DOMAIN s : P(s[i])
    THEN CHOOSE i \in DOMAIN s : P(s[i]) /\ \A j \in 1..(i - 1) : ~P(s[j])
    ELSE 0

After(s, i) == SubSeq(s, i + 1, Len(s))

---------------------------------------------------------------------------
(* Notification ids of the two variants *)

TranscribingAudio == <<"Transcribing Audio", "">>

\* id of s3UploadCallback's notification
CallbackId(name) ==
    IF variant = 1 THEN <<"New HealthScribe Job: ", name>> ELSE TranscribingAudio

\* id of the upload error notification
UploadErrorId(name) ==
    IF variant = 1 THEN <<"New Job: ", name>> ELSE TranscribingAudio

\* id of the job notifications (submitted, polling, success, info, error)
JobId(name) ==
    IF variant = 1 THEN <<"New HealthScribe Job: ", name>> ELSE TranscribingAudio

\* the texts in which the variants differ
SubmittedText == IF variant = 1 THEN "Scribe job submitted" ELSE "Scribe submitted"
PollingText == IF variant = 1 THEN "Scribe job submitted" ELSE "Scribe in progress"
SubmittedInfo == "Audio file successfully uploaded and submitted to transcription."
SuccessInfo == IF variant = 1 THEN SubmittedInfo ELSE "Audio file successfully transcribed."

ProgressStart == IF variant = 1 THEN ProgressStart1 ELSE ProgressStart2
ProgressStep == IF variant = 1 THEN ProgressStep1 ELSE ProgressStep2
ProgressCeiling == IF variant = 1 THEN ProgressCeiling1 ELSE ProgressCeiling2

---------------------------------------------------------------------------
(* Frames of submitJob *)

\* otherRole with the branches of the conditional exchanged
otherRoleExchanged(channel1) == IF channel1 = "CLINICIAN" THEN "CLINICIAN" ELSE "PATIENT"

\* the role of channel 1, the one channel 0 does not have
otherRole(channel1) == IF channel1 = "CLINICIAN" THEN "PATIENT" ELSE "CLINICIAN"

\* audioParams, lines 108-131
audioParams(selection, details) ==
    IF selection = "speakerPartitioning"
    THEN [Settings |->
              [MaxSpeakerLabels |-> details.speakerPartitioning.maxSpeakers,
               ShowSpeakerLabels |-> TRUE]]
    ELSE [ChannelDefinitions |->
              <<[ChannelId |-> 0,
                 ParticipantRole |-> details.channelIdentification.channel1],
                [ChannelId |-> 1,
                 ParticipantRole |-> otherRole(details.channelIdentification.channel1)]>>,
          Settings |-> [ChannelIdentification |-> TRUE]]

\* jobParams, lines 139-147: { ..., ...audioParams }
JobParams(f) ==
    audioParams(f.audioSelection, f.audioDetails) @@
    [MedicalScribeJobName |-> f.jobName,
     DataAccessRoleArn |-> "healthScribeServiceRole",
     OutputBucketName |-> "outputBucket",
     Media |-> [MediaFileUri |-> <<"s3://", "bucket", "key", f.file>>]]

\* The frame of a run that starts now: the closure captures the rendered
\* jobName and filePath.
NewFrame(n) ==
    [n |-> n, pc |-> "entry", jobName |-> jobName, file |-> filePath,
     audioSelection |-> audioSelection, audioDetails |-> audioDetails,
     progress |-> 0, trace |-> <<>>, result |-> "inflight", exit |-> "none",
     error |-> NoError, jobstatus |-> NoStatus, uploadEvents |-> 0,
     lastLoaded |-> 0]

Do(f, evs) == [f EXCEPT !.trace = f.trace \o evs]

At(f, pc) == [f EXCEPT !.pc = pc]

\* the run is over: `return` or `throw e`
Finish(f, result, exit, err) ==
    [f EXCEPT !.pc = "done", !.result = result, !.exit = exit, !.error = err]

\* UploadValue on a scale of 100 instead of 99
UploadValuePercent(loaded, total) ==
    LET L == IF loaded = 0 THEN DefaultLoaded ELSE loaded
        T == IF total = 0 THEN DefaultTotal ELSE total
    IN  (2 * L * 100 + T) \div (2 * T)

\* Math.round(((loaded || 1) / (total || 100)) * 99), on naturals; an absent
\* loaded or total is falsy as 0 is
UploadValue(loaded, total) ==
    LET L == IF loaded = 0 THEN DefaultLoaded ELSE loaded
        T == IF total = 0 THEN DefaultTotal ELSE total
    IN  (2 * L * UploadScale + T) \div (2 * T)

\* s3UploadCallback({ loaded, part, total })
s3UploadCallback(f, loaded, part, total) ==
    Do(f, <<Call("s3UploadCallback",
                 [loaded |-> loaded, part |-> part, total |-> total]),
            Post(Notif(CallbackId(f.jobName), "none", UploadValue(loaded, total),
                       "Uploaded part", <<"part", part>>))>>)

\* the initial flash message, then multipartUpload(...) is called and awaited
beginUpload(f) ==
    At(Do(f, <<Post(Notif(TranscribingAudio, "none", 0,
                          "Uploading Audio in progress...", <<>>)),
               Call("multipartUpload", f.file)>>),
       "upload")

\* validationFailed without its `return`: the run goes on to the upload
validationFailedNoReturn(f, vr) ==
    beginUpload(Do(f, <<Set("formError", vr.message), Set("isSubmitting", FALSE)>>))

\* if (!verifyParamResults.verified) { setFormError; setIsSubmitting(false); return }
validationFailed(f, vr) ==
    Finish(Do(f, <<Set("formError", vr.message), Set("isSubmitting", FALSE)>>),
           "rejected", "return", NoError)

\* submitJob from its first line to its first await (or to its return)
submitEntry(f, vr) ==
    LET f1 == Do(f, <<Set("isSubmitting", TRUE), Set("formError", "")>>)
    IN  IF f.file = NoFile
        THEN \* (filePath as File).name on undefined throws a TypeError
             Finish(Do(f1, <<Throw("submitJob", "TypeError")>>),
                    "typeError", "throw", "TypeError")
        ELSE LET f2 == Do(f1, <<Call("verifyJobParams", JobParams(f)),
                                Return("verifyJobParams", vr)>>)
             IN  IF ~vr.verified THEN validationFailed(f2, vr) ELSE beginUpload(f2)

\* uploadCatch without its `throw e`: the run goes on to job creation
uploadCatchSwallowed(f, msg) ==
    At(Do(f, <<Throw("multipartUpload", msg),
               Post(Notif(UploadErrorId(f.jobName), "error", 0,
                          "Uploading Audio failed",
                          <<"Error uploading ", f.file, msg>>)),
               Set("isSubmitting", FALSE),
               Call("startMedicalScribeJob", JobParams(f))>>),
       "start")

\* uploadCatch without its setIsSubmitting(false)
uploadCatchNoReset(f, msg) ==
    Finish(Do(f, <<Throw("multipartUpload", msg),
                   Post(Notif(UploadErrorId(f.jobName), "error", 0,
                              "Uploading Audio failed",
                              <<"Error uploading ", f.file, msg>>))>>),
           "uploadError", "throw", msg)

\* catch (e) of the upload: error notification, setIsSubmitting(false), throw e
uploadCatch(f, msg) ==
    Finish(Do(f, <<Throw("multipartUpload", msg),
                   Post(Notif(UploadErrorId(f.jobName), "error", 0,
                              "Uploading Audio failed",
                              <<"Error uploading ", f.file, msg>>)),
                   Set("isSubmitting", FALSE)>>),
           "uploadError", "throw", msg)

\* the upload resolved: startMedicalScribeJob(jobParams) is called and awaited
uploadResolved(f) ==
    At(Do(f, <<Return("multipartUpload", "ok"),
               Call("startMedicalScribeJob", JobParams(f))>>),
       "start")

\* await sleep(5000) at the head of the loop body
beginSleep(f) == At(Do(f, <<Call("sleep", PollDelay)>>), "sleep")

\* startJobReturned without the submitted notification
startJobReturnedNoNotice(f, status) ==
    LET f1 == Do(f, <<Return("startMedicalScribeJob", status)>>)
    IN  IF Truthy(status)
        THEN beginSleep([f1 EXCEPT !.progress = ProgressStart])
        ELSE Finish(Do(f1, <<Post(Notif(JobId(f.jobName), "info", 100,
                                        "Unable to confirm job submission",
                                        <<"Response from HealthScribe: ", status>>)),
                             Set("isSubmitting", FALSE)>>),
                    "unconfirmed", "return", NoError)

\* startJobReturned that reports a response without a status as an error
startJobReturnedErrorOnNoStatus(f, status) ==
    LET f1 == Do(f, <<Return("startMedicalScribeJob", status)>>)
    IN  IF Truthy(status)
        THEN beginSleep([Do(f1, <<Post(Notif(JobId(f.jobName), "none", SubmittedValue,
                                            SubmittedText,
                                            <<SubmittedInfo>>))>>)
                         EXCEPT !.progress = ProgressStart])
        ELSE Finish(Do(f1, <<Post(Notif(JobId(f.jobName), "error", 0,
                                        "Unable to confirm job submission",
                                        <<"Response from HealthScribe: ", status>>)),
                             Set("isSubmitting", FALSE)>>),
                    "unconfirmed", "return", NoError)

\* startJobReturned without the test of the response's status
startJobReturnedAlwaysPoll(f, status) ==
    beginSleep([Do(f, <<Return("startMedicalScribeJob", status),
                        Post(Notif(JobId(f.jobName), "none", SubmittedValue,
                                   SubmittedText,
                                   <<SubmittedInfo>>))>>)
                EXCEPT !.progress = ProgressStart])

\* startMedicalScribeJob returned: the submitted notification and the loop's
\* first sleep, or the info notification and the normal end
startJobReturned(f, status) ==
    LET f1 == Do(f, <<Return("startMedicalScribeJob", status)>>)
    IN  IF Truthy(status)
        THEN beginSleep([Do(f1, <<Post(Notif(JobId(f.jobName), "none", SubmittedValue,
                                            SubmittedText,
                                            <<SubmittedInfo>>))>>)
                         EXCEPT !.progress = ProgressStart])
        ELSE Finish(Do(f1, <<Post(Notif(JobId(f.jobName), "info", 100,
                                        "Unable to confirm job submission",
                                        <<"Response from HealthScribe: ", status>>)),
                             Set("isSubmitting", FALSE)>>),
                    "unconfirmed", "return", NoError)

\* jobCatch without its setIsSubmitting(false)
jobCatchNoReset(f, api, msg) ==
    Finish(Do(f, <<Throw(api, msg),
                   Post(Notif(JobId(f.jobName), "error", 0,
                              "Submitting job to HealthScribe failed",
                              <<"Error submitting job to HealthScribe: ", msg>>))>>),
           "jobError", "throw", msg)

\* jobCatch that retries a failed status fetch instead of giving up
jobCatchRetry(f, api, msg) ==
    IF api = "getHealthScribeJob"
    THEN beginSleep(Do(f, <<Throw(api, msg)>>))
    ELSE Finish(Do(f, <<Throw(api, msg),
                        Post(Notif(JobId(f.jobName), "error", 0,
                                   "Submitting job to HealthScribe failed",
                                   <<"Error submitting job to HealthScribe: ", msg>>)),
                        Set("isSubmitting", FALSE)>>),
                "jobError", "throw", msg)

\* jobCatch without its `throw e`: the run returns normally
jobCatchNoRethrow(f, api, msg) ==
    Finish(Do(f, <<Throw(api, msg),
                   Post(Notif(JobId(f.jobName), "error", 0,
                              "Submitting job to HealthScribe failed",
                              <<"Error submitting job to HealthScribe: ", msg>>)),
                   Set("isSubmitting", FALSE)>>),
           "jobError", "return", NoError)

\* catch (e) of job creation and polling
jobCatch(f, api, msg) ==
    Finish(Do(f, <<Throw(api, msg),
                   Post(Notif(JobId(f.jobName), "error", 0,
                              "Submitting job to HealthScribe failed",
                              <<"Error submitting job to HealthScribe: ", msg>>)),
                   Set("isSubmitting", FALSE)>>),
           "jobError", "throw", msg)

\* sleepDone that reads the job name the form shows now
sleepDoneCurrentName(f) ==
    At(Do(f, <<Return("sleep", PollDelay),
               Call("getHealthScribeJob", jobName)>>),
       "get")

\* the sleep is over: getHealthScribeJob({ MedicalScribeJobName: jobName })
sleepDone(f) ==
    At(Do(f, <<Return("sleep", PollDelay),
               Call("getHealthScribeJob", f.jobName)>>),
       "get")

\* advance that starts over at the ceiling
advanceStartOver(p) == IF p + ProgressStep >= ProgressCeiling THEN ProgressStart ELSE p + ProgressStep

\* advance without the clamp
advanceUnclamped(p) == p + ProgressStep

\* progress += step; if (progress >= ceiling) progress = ceiling
advance(p) == IF p + ProgressStep >= ProgressCeiling THEN ProgressCeiling ELSE p + ProgressStep

\* the in-progress notification of one iteration
pollNotification(f) ==
    Notif(JobId(f.jobName), "none", f.progress, PollingText,
          <<"Transcribing audio...">>)

\* the 100% notification
successNotification(f) ==
    Notif(JobId(f.jobName), "success", 100, "Scribe job submitted",
          <<SuccessInfo>>)

\* getJobReturned that advances the counter before it posts
getJobReturnedAdvanceFirst(f, status) ==
    LET f0 == [f EXCEPT !.progress = advance(f.progress)]
        f1 == [Do(f0, <<Return("getHealthScribeJob", "response"),
                        Post(pollNotification(f0))>>)
               EXCEPT !.jobstatus = status]
    IN  IF status = "COMPLETED"
        THEN At(Do(f1, <<Post(successNotification(f)), Call("sleep", SuccessDelay)>>),
                "sleep500")
        ELSE beginSleep(f1)

\* getJobReturned that tests the status before it posts the progress
getJobReturnedSuccessFirst(f, status) ==
    LET f1 == [f EXCEPT !.jobstatus = status, !.progress = advance(f.progress)]
        ret == <<Return("getHealthScribeJob", "response")>>
    IN  IF status = "COMPLETED"
        THEN At(Do(f1, ret \o <<Post(successNotification(f)), Post(pollNotification(f)),
                                Call("sleep", SuccessDelay)>>),
                "sleep500")
        ELSE beginSleep(Do(f1, ret \o <<Post(pollNotification(f))>>))

\* getJobReturned with an exit from the loop on the status FAILED
getJobReturnedExitOnFailed(f, status) ==
    LET f1 == [Do(f, <<Return("getHealthScribeJob", "response"),
                       Post(pollNotification(f))>>)
               EXCEPT !.jobstatus = status, !.progress = advance(f.progress)]
    IN  IF status = "COMPLETED"
        THEN At(Do(f1, <<Post(successNotification(f)), Call("sleep", SuccessDelay)>>),
                "sleep500")
        ELSE IF status = "FAILED"
        THEN Finish(Do(f1, <<Post(Notif(JobId(f.jobName), "error", 0,
                                        "Submitting job to HealthScribe failed",
                                        <<"HealthScribe job failed">>)),
                             Set("isSubmitting", FALSE)>>),
                    "jobError", "return", NoError)
        ELSE beginSleep(f1)

\* getHealthScribeJob returned: the rest of the loop body.  The trace keeps
\* that it returned; the status it carried is the local `jobstatus`.
getJobReturned(f, status) ==
    LET f1 == [Do(f, <<Return("getHealthScribeJob", "response"),
                       Post(pollNotification(f))>>)
               EXCEPT !.jobstatus = status, !.progress = advance(f.progress)]
    IN  IF status = "COMPLETED"
        THEN At(Do(f1, <<Post(successNotification(f)), Call("sleep", SuccessDelay)>>),
                "sleep500")
        ELSE beginSleep(f1)

\* successDelayDone without the setIsSubmitting(false) after the loop
successDelayDoneNoReset(f) ==
    Finish(Do(f, <<Return("sleep", SuccessDelay),
                   Call("navigate", <<"/conversation/", f.jobName>>)>>),
           "completed", "return", NoError)

\* successDelayDone without its `break`: the loop goes on
successDelayDoneNoBreak(f) ==
    beginSleep(Do(f, <<Return("sleep", SuccessDelay),
                       Call("navigate", <<"/conversation/", f.jobName>>)>>))

\* after sleep(500): navigate, break, setIsSubmitting(false)
successDelayDone(f) ==
    Finish(Do(f, <<Return("sleep", SuccessDelay),
                   Call("navigate", <<"/conversation/", f.jobName>>),
                   Set("isSubmitting", FALSE)>>),
           "completed", "return", NoError)

---------------------------------------------------------------------------
(* The component's state follows what a segment did *)

RECURSIVE ApplySets(_, _, _)
ApplySets(evs, var, cur) ==
    IF evs = <<>> THEN cur
    ELSE ApplySets(Tail(evs), var,
                   IF Head(evs).kind = "set" /\ Head(evs).what = var
                   THEN Head(evs).data ELSE cur)

RECURSIVE ApplyPosts(_, _)
ApplyPosts(items, evs) ==
    IF evs = <<>> THEN items
    ELSE ApplyPosts(IF IsPost(Head(evs)) THEN updateProgressBar(items, Head(evs).data)
                    ELSE items,
                    Tail(evs))

Summary(f) == [jobName |-> f.jobName, result |-> f.result]

Effects(evs) ==
    /\ isSubmitting' = ApplySets(evs, "isSubmitting", isSubmitting)
    /\ formError' = ApplySets(evs, "formError", formError)
    /\ flashbarItems' = ApplyPosts(flashbarItems, evs)

\* frame r takes a step to g
Step(r, g) ==
    /\ runs' = [runs EXCEPT ![r] = g]
    /\ attempts' = [attempts EXCEPT ![g.n] = Summary(g)]
    /\ Effects(After(g.trace, Len(runs[r].trace)))
    /\ UNCHANGED <<variant, jobName, audioSelection, audioDetails, filePath,
                   recordedAudio>>

InFlight(f) == f.pc # "done"

---------------------------------------------------------------------------
(* The submit control, lines 261-269 *)

\* the control with disabled={!filePath} in both branches
SubmitEnabledWhileSubmitting == filePath # NoFile

\* the control without disabled={!filePath}
SubmitEnabledWithoutFile == ~isSubmitting

SubmitEnabled == ~isSubmitting /\ filePath # NoFile

---------------------------------------------------------------------------
(* Actions *)

\* the component as mounted, its two form settings being given
Mounted ==
    /\ variant \in {1, 2}
    /\ isSubmitting = FALSE
    /\ formError = ""
    /\ jobName \in GeneratedNames
    /\ filePath = NoFile
    /\ recordedAudio = NoFile
    /\ flashbarItems = <<>>
    /\ runs = <<>>
    /\ attempts = <<>>

Init ==
    /\ Mounted
    /\ audioSelection = DefaultAudioSelection
    /\ audioDetails = DefaultAudioDetails

\* <form onSubmit={(e) => submitJob(e)}>: the frames of finished runs are gone
SubmitUpTo(k) ==
    /\ SubmitEnabled
    /\ Len(attempts) < k
    /\ \E vr \in VerifyResults :
         LET g == submitEntry(NewFrame(Len(attempts) + 1), vr)
         IN  /\ runs' = Append(SelectSeq(runs, InFlight), g)
             /\ attempts' = Append(attempts, Summary(g))
             /\ Effects(g.trace)
    /\ UNCHANGED <<variant, jobName, audioSelection, audioDetails, filePath,
                   recordedAudio>>

Submit == SubmitUpTo(MaxAttempts)

UploadProgress ==
    \E r \in DOMAIN runs :
        /\ runs[r].pc = "upload"
        /\ runs[r].uploadEvents < MaxUploadEvents
        /\ \E loaded \in LoadedValues(runs[r].file) :
             /\ loaded >= runs[r].lastLoaded
             /\ Step(r, [s3UploadCallback(runs[r], loaded, runs[r].uploadEvents + 1,
                                          FileSize(runs[r].file))
                         EXCEPT !.uploadEvents = @ + 1, !.lastLoaded = loaded])

UploadResolve ==
    \E r \in DOMAIN runs :
        /\ runs[r].pc = "upload"
        /\ Step(r, uploadResolved(runs[r]))

UploadReject ==
    \E r \in DOMAIN runs, msg \in ErrorMessages :
        /\ runs[r].pc = "upload"
        /\ Step(r, uploadCatch(runs[r], msg))

StartJobReturn ==
    \E r \in DOMAIN runs, status \in StartStatuses :
        /\ runs[r].pc = "start"
        /\ Step(r, startJobReturned(runs[r], status))

StartJobThrow ==
    \E r \in DOMAIN runs, msg \in ErrorMessages :
        /\ runs[r].pc = "start"
        /\ Step(r, jobCatch(runs[r], "startMedicalScribeJob", msg))

SleepDoneUpTo(k) ==
    \E r \in DOMAIN runs :
        /\ runs[r].pc = "sleep"
        /\ Calls(runs[r], "getHealthScribeJob") < k
        /\ Step(r, sleepDone(runs[r]))

SleepDone == SleepDoneUpTo(MaxPolls)

GetJobReturn ==
    \E r \in DOMAIN runs, status \in JobStatuses :
        /\ runs[r].pc = "get"
        /\ Step(r, getJobReturned(runs[r], status))

GetJobThrow ==
    \E r \in DOMAIN runs, msg \in ErrorMessages :
        /\ runs[r].pc = "get"
        /\ Step(r, jobCatch(runs[r], "getHealthScribeJob", msg))

SuccessDelayDone ==
    \E r \in DOMAIN runs :
        /\ runs[r].pc = "sleep500"
        /\ Step(r, successDelayDone(runs[r]))

\* <InputName jobName={jobName} setJobName={setJobName} />, rendered by variant 1
SetJobName ==
    /\ variant = 1
    /\ \E name \in TypedNames \cup GeneratedNames :
         /\ name # jobName
         /\ jobName' = name
    /\ UNCHANGED <<variant, isSubmitting, formError, audioSelection, audioDetails,
                   filePath, recordedAudio, flashbarItems, runs, attempts>>

\* the recording effect that leaves a file already in the slot alone
RecordAudioIntoEmptySlot(files) ==
    /\ \E f \in files :
         /\ f # recordedAudio
         /\ recordedAudio' = f
         /\ filePath' = IF filePath = NoFile THEN f ELSE filePath
    /\ UNCHANGED <<variant, isSubmitting, formError, jobName, audioSelection,
                   audioDetails, flashbarItems, runs, attempts>>

\* AudioRecorder hands over a new File, one of files; the effect copies it
\* to the slot
RecordAudioOf(files) ==
    /\ \E f \in files :
         /\ f # recordedAudio
         /\ recordedAudio' = f
         /\ filePath' = f
    /\ UNCHANGED <<variant, isSubmitting, formError, jobName, audioSelection,
                   audioDetails, flashbarItems, runs, attempts>>

RecordAudio == RecordAudioOf(RecordedFiles)

\* AudioDropzone hands over the dropped file
DropFile ==
    /\ \E f \in SelectedFiles :
         /\ f # filePath
         /\ filePath' = f
    /\ UNCHANGED <<variant, isSubmitting, formError, jobName, audioSelection,
                   audioDetails, recordedAudio, flashbarItems, runs, attempts>>

\* TokenGroup onDismiss
DismissFile ==
    /\ filePath # NoFile
    /\ filePath' = NoFile
    /\ UNCHANGED <<variant, isSubmitting, formError, jobName, audioSelection,
                   audioDetails, recordedAudio, flashbarItems, runs, attempts>>

Next ==
    \/ Submit
    \/ UploadProgress
    \/ UploadResolve
    \/ UploadReject
    \/ StartJobReturn
    \/ StartJobThrow
    \/ SleepDone
    \/ GetJobReturn
    \/ GetJobThrow
    \/ SuccessDelayDone
    \/ SetJobName
    \/ RecordAudio
    \/ DropFile
    \/ DismissFile

Spec == Init /\ [][Next]_vars

\* One submission on the page, with everything the user can do to the form
\* meanwhile, polled for long enough to reach the ceiling of the polling
\* counter in both variants.
SubmitOnce == SubmitUpTo(1)

SleepDoneDeep == SleepDoneUpTo(MaxDeepPolls)

NextDeep ==
    \/ SubmitOnce
    \/ UploadProgress
    \/ UploadResolve
    \/ UploadReject
    \/ StartJobReturn
    \/ StartJobThrow
    \/ SleepDoneDeep
    \/ GetJobReturn
    \/ GetJobThrow
    \/ SuccessDelayDone
    \/ SetJobName
    \/ RecordAudio
    \/ DropFile
    \/ DismissFile

SpecDeep == Init /\ [][NextDeep]_vars

\* One submission in an environment in which nothing fails: the upload
\* resolves, startMedicalScribeJob returns a status, no call throws, and the
\* remote job is COMPLETED at the MaxLivePolls-th status fetch at the latest.
\* Promises that settle and timers that fire have their continuations run:
\* every step of the run is weakly fair.  What the user does to the form is
\* not.
StartJobReturnStatus ==
    \E r \in DOMAIN runs, status \in {st \in StartStatuses : Truthy(st)} :
        /\ runs[r].pc = "start"
        /\ Step(r, startJobReturned(runs[r], status))

SleepDoneLive == SleepDoneUpTo(MaxLivePolls)

GetJobReturnLive ==
    \E r \in DOMAIN runs :
        /\ runs[r].pc = "get"
        /\ \E status \in IF Calls(runs[r], "getHealthScribeJob") >= MaxLivePolls
                          THEN {"COMPLETED"} ELSE JobStatuses :
               Step(r, getJobReturned(runs[r], status))

NextLive ==
    \/ SubmitOnce
    \/ UploadProgress
    \/ UploadResolve
    \/ StartJobReturnStatus
    \/ SleepDoneLive
    \/ GetJobReturnLive
    \/ SuccessDelayDone
    \/ SetJobName
    \/ RecordAudio
    \/ DropFile
    \/ DismissFile

SpecLive ==
    /\ Init
    /\ [][NextLive]_vars
    /\ WF_vars(UploadResolve)
    /\ WF_vars(StartJobReturnStatus)
    /\ WF_vars(SleepDoneLive)
    /\ WF_vars(GetJobReturnLive)
    /\ WF_vars(SuccessDelayDone)

\* One submission up to job creation, with the inputs of the component's
\* pure computations drawn from their types: the two form settings that
\* audioParams reads, and the progress events s3UploadCallback is handed
\* (0 stands for an absent or zero field of the event); the user records
\* again and again.
AudioDetailsInputs ==
    {AudioDetailsOf(m, c) : m \in DefaultMaxSpeakers..MaxSpeakers, c \in ParticipantRoles}

ProgressLoaded == {0, 1, MaxLoaded}
ProgressTotals == {0, MaxLoaded \div 2 + 1, MaxLoaded}

RecordAudioAgain == RecordAudioOf(Recordings)

InitInputs ==
    /\ Mounted
    /\ audioSelection \in AudioSelections
    /\ audioDetails \in AudioDetailsInputs

UploadProgressAny ==
    \E r \in DOMAIN runs, loaded \in ProgressLoaded, total \in ProgressTotals :
        /\ runs[r].pc = "upload"
        /\ runs[r].uploadEvents < MaxUploadEvents
        /\ Step(r, [s3UploadCallback(runs[r], loaded, runs[r].uploadEvents + 1, total)
                    EXCEPT !.uploadEvents = @ + 1, !.lastLoaded = loaded])

NextInputs ==
    \/ SubmitOnce
    \/ UploadProgressAny
    \/ UploadResolve
    \/ UploadReject
    \/ StartJobReturn
    \/ StartJobThrow
    \/ SetJobName
    \/ RecordAudioAgain
    \/ DropFile
    \/ DismissFile

SpecInputs == InitInputs /\ [][NextInputs]_vars

---------------------------------------------------------------------------
(* Reading a frame's trace *)

IsReturn(e, api) == e.kind = "return" /\ e.what = api
IsThrowOf(e, api) == e.kind = "throw" /\ e.what = api
IsSet(e, var, v) == e.kind = "set" /\ e.what = var /\ e.data = v
IsErrorPost(e) == IsPost(e) /\ e.data.type = "error"

Idx(f, P(_)) == FirstIndex(f.trace, P)
Has(f, P(_)) == \E i \in DOMAIN f.trace : P(f.trace[i])
\* what the run did after its i-th event
Since(f, i) == After(f.trace, i)
PostsIn(s) == SelectSeq(s, IsPost)
NavigationsIn(s) == SelectSeq(s, LAMBDA e: IsCall(e, "navigate"))
Frames == {runs[r] : r \in DOMAIN runs}

UploadThrew(f) == Has(f, LAMBDA e: IsThrowOf(e, "multipartUpload"))
StartThrew(f) == Has(f, LAMBDA e: IsThrowOf(e, "startMedicalScribeJob"))

---------------------------------------------------------------------------
(* C1 *)

\* C1: in every run of submitJob, startMedicalScribeJob is called at most
\* once and only after multipartUpload has resolved; if multipartUpload
\* rejects, neither startMedicalScribeJob nor getHealthScribeJob is called.
C1_JobCreationOnlyAfterUpload ==
    \A f \in Frames :
        LET iStart == Idx(f, LAMBDA e: IsCall(e, "startMedicalScribeJob"))
            iDone == Idx(f, LAMBDA e: IsReturn(e, "multipartUpload"))
        IN  /\ Calls(f, "startMedicalScribeJob") <= 1
            /\ iStart # 0 => (iDone # 0 /\ iDone < iStart)
            /\ UploadThrew(f) =>
                   /\ Calls(f, "startMedicalScribeJob") = 0
                   /\ Calls(f, "getHealthScribeJob") = 0

\* the upload has reported progress and resolved, the job was created and
\* the run is polling
C1_Witness ==
    \E f \in Frames :
        /\ f.uploadEvents > 0
        /\ Calls(f, "startMedicalScribeJob") = 1
        /\ Calls(f, "getHealthScribeJob") >= 1

---------------------------------------------------------------------------
(* C3 *)

\* C3: if startMedicalScribeJob throws, then after the throw the run posts
\* exactly one notification, of type error with value 0 and the thrown
\* message, resets isSubmitting to false, never calls getHealthScribeJob,
\* never navigates, and re-raises the error.
C3_JobCreationThrows ==
    \A f \in Frames :
        StartThrew(f) =>
            LET i == Idx(f, LAMBDA e: IsThrowOf(e, "startMedicalScribeJob"))
                msg == f.trace[i].data
                posted == PostsIn(Since(f, i))
            IN  /\ Len(posted) = 1
                /\ posted[1].data.type = "error"
                /\ posted[1].data.value = 0
                /\ posted[1].data.additionalInfo =
                       <<"Error submitting job to HealthScribe: ", msg>>
                /\ Count(PostsIn(f.trace), IsErrorPost) = 1
                /\ Has(f, LAMBDA e: IsSet(e, "isSubmitting", FALSE))
                /\ isSubmitting = FALSE
                /\ Calls(f, "getHealthScribeJob") = 0
                /\ NavigationsIn(f.trace) = <<>>
                /\ f.pc = "done" /\ f.exit = "throw" /\ f.error = msg

C3_Witness ==
    \E f \in Frames :
        /\ StartThrew(f)
        /\ f.result = "jobError"
        /\ f.error = "Timeout"

---------------------------------------------------------------------------
(* C4 *)

\* C4: if multipartUpload rejects, then after the rejection the run posts
\* exactly one notification, of type error with value 0, the file's name and
\* the error's message, resets isSubmitting to false and re-raises the
\* error; it posts nothing else.
C4_UploadRejects ==
    \A f \in Frames :
        UploadThrew(f) =>
            LET i == Idx(f, LAMBDA e: IsThrowOf(e, "multipartUpload"))
                msg == f.trace[i].data
                posted == PostsIn(Since(f, i))
            IN  /\ Len(posted) = 1
                /\ posted[1].data.type = "error"
                /\ posted[1].data.value = 0
                /\ posted[1].data.additionalInfo = <<"Error uploading ", f.file, msg>>
                /\ f.file # NoFile
                /\ f.trace[Len(f.trace)] = Set("isSubmitting", FALSE)
                /\ isSubmitting = FALSE
                /\ f.pc = "done" /\ f.exit = "throw" /\ f.error = msg

\* rejected after the callback had reported progress
C4_Witness ==
    \E f \in Frames :
        /\ UploadThrew(f)
        /\ f.result = "uploadError"
        /\ f.uploadEvents > 0

---------------------------------------------------------------------------
(* C5 *)

StartReturnedWithoutStatus(f) ==
    Has(f, LAMBDA e: IsReturn(e, "startMedicalScribeJob") /\ ~Truthy(e.data))

\* C5: if startMedicalScribeJob returns a response without a job status, the
\* run ends Unconfirmed: after the response it posts exactly one
\* notification, of type info and echoing the response, it never calls
\* getHealthScribeJob, never navigates, posts no error notification, and
\* returns normally with isSubmitting false.
C5_Unconfirmed ==
    \A f \in Frames :
        StartReturnedWithoutStatus(f) =>
            LET i == Idx(f, LAMBDA e: IsReturn(e, "startMedicalScribeJob"))
                posted == PostsIn(Since(f, i))
            IN  /\ Len(posted) = 1
                /\ posted[1].data.type = "info"
                /\ posted[1].data.additionalInfo =
                       <<"Response from HealthScribe: ", f.trace[i].data>>
                /\ Calls(f, "getHealthScribeJob") = 0
                /\ NavigationsIn(f.trace) = <<>>
                /\ Count(PostsIn(f.trace), IsErrorPost) = 0
                /\ f.pc = "done" /\ f.result = "unconfirmed"
                /\ f.exit = "return" /\ f.error = NoError
                /\ isSubmitting = FALSE

C5_Witness ==
    \E f \in Frames :
        /\ StartReturnedWithoutStatus(f)
        /\ f.result = "unconfirmed"
        /\ f.trace[Idx(f, LAMBDA e: IsReturn(e, "startMedicalScribeJob"))].data = NoStatus

---------------------------------------------------------------------------
(* C2 *)

Completed(f) == f.pc = "done" /\ f.result = "completed"

\* what the run posted and where it navigated after job creation returned
JobOutput(f) ==
    SelectSeq(Since(f, Idx(f, LAMBDA e: IsReturn(e, "startMedicalScribeJob"))),
              LAMBDA e: IsPost(e) \/ IsCall(e, "navigate"))

\* C2: a submission whose upload succeeded, whose job-creation response
\* carried a status and whose n-th poll was the first to return COMPLETED,
\* with no call throwing, has posted after the submitted notification
\* exactly n polling notifications, each without a terminal type and with a
\* value below 100, the values increasing from poll to poll until the
\* ceiling is reached, then exactly one notification of type success with
\* value 100, then exactly one navigation to /conversation/<jobName>, and
\* nothing else.
C2_CompletedAfterNPolls ==
    \A f \in Frames :
        Completed(f) =>
            LET n == Calls(f, "getHealthScribeJob")
                out == JobOutput(f)
            IN  /\ n >= 1
                /\ f.jobstatus = "COMPLETED"
                /\ Len(out) = n + 3
                /\ IsPost(out[1]) /\ out[1].data.value = SubmittedValue
                /\ \A k \in 1..n :
                       /\ IsPost(out[k + 1])
                       /\ out[k + 1].data.type = "none"
                       /\ out[k + 1].data.value < 100
                /\ \A k \in 1..(n - 1) :
                       \/ out[k + 1].data.value < out[k + 2].data.value
                       \/ /\ out[k + 1].data.value = ProgressCeiling
                          /\ out[k + 2].data.value = ProgressCeiling
                /\ IsPost(out[n + 2])
                /\ out[n + 2].data.type = "success"
                /\ out[n + 2].data.value = 100
                /\ out[n + 3] = Call("navigate", <<"/conversation/", f.jobName>>)

\* completed after so many polls that the counter stood at its ceiling for
\* the last two of them
C2_Witness ==
    \E f \in Frames :
        /\ Completed(f)
        /\ LET n == Calls(f, "getHealthScribeJob")
               out == JobOutput(f)
           IN  /\ n >= 2
               /\ out[n].data.value = ProgressCeiling
               /\ out[n + 1].data.value = ProgressCeiling

---------------------------------------------------------------------------
(* C6 *)

IsProgressPost(e) == IsPost(e) /\ e.data.type = "none"

\* C6: within one submission the posted value never regresses: over the
\* notifications of the upload callback, the submitted notification and the
\* polling notifications, in the order posted, each value is at least the
\* value posted before it.
C6_ValueNeverRegresses ==
    \A f \in Frames :
        LET p == SelectSeq(f.trace, IsProgressPost)
        IN  \A k \in 1..(Len(p) - 1) : p[k + 1].data.value >= p[k].data.value

---------------------------------------------------------------------------
(* C7 *)

\* C7: at most one submitJob run is in flight on the page at any time, and
\* while one is in flight isSubmitting is true and the submit control is
\* disabled.
C7_OneWorkflowInFlight ==
    /\ Cardinality({r \in DOMAIN runs : InFlight(runs[r])}) <= 1
    /\ (\E f \in Frames : InFlight(f)) => (isSubmitting /\ ~SubmitEnabled)

\* a run is polling while a file sits in the upload slot
C7_Witness ==
    /\ filePath # NoFile
    /\ \E f \in Frames : f.pc = "sleep" /\ Calls(f, "getHealthScribeJob") >= 1

---------------------------------------------------------------------------
(* C8 *)

Failed(a) == a.result \in {"uploadError", "jobError"}

\* C8: a resubmission made after a failed attempt uses a job name that
\* differs from the failed attempt's job name.
C8_ResubmissionUsesNewJobName ==
    \A i, j \in DOMAIN attempts :
        (i < j /\ Failed(attempts[i])) => attempts[j].jobName # attempts[i].jobName

---------------------------------------------------------------------------
(* C9 *)

ValidationRejected(f) ==
    Has(f, LAMBDA e: IsReturn(e, "verifyJobParams") /\ ~e.data.verified)

\* C9: if verifyJobParams returns verified = false, submitJob returns
\* without calling multipartUpload, startMedicalScribeJob or
\* getHealthScribeJob and without posting a notification; it sets the form
\* error to the validator's message and leaves isSubmitting false.
C9_ValidationRejects ==
    \A f \in Frames :
        ValidationRejected(f) =>
            LET i == Idx(f, LAMBDA e: IsReturn(e, "verifyJobParams"))
                vr == f.trace[i].data
            IN  /\ Calls(f, "multipartUpload") = 0
                /\ Calls(f, "startMedicalScribeJob") = 0
                /\ Calls(f, "getHealthScribeJob") = 0
                /\ PostsIn(f.trace) = <<>>
                /\ Since(f, i) = <<Set("formError", vr.message),
                                   Set("isSubmitting", FALSE)>>
                /\ formError = vr.message
                /\ isSubmitting = FALSE
                /\ f.pc = "done" /\ f.exit = "return"

\* the very first submission is rejected: the sink is still empty
C9_Witness ==
    /\ \E f \in Frames : ValidationRejected(f) /\ f.result = "rejected"
    /\ Len(attempts) = 1
    /\ flashbarItems = <<>>
    /\ formError # ""

---------------------------------------------------------------------------
(* C10 *)

\* C10: the submit control is enabled only with a file in the upload slot
\* and isSubmitting false; every run of submitJob was started with a file,
\* and multipartUpload is only called with that file after verifyJobParams
\* returned verified = true.
C10_UploadNeedsFile ==
    /\ SubmitEnabled => (filePath # NoFile /\ ~isSubmitting)
    /\ \A f \in Frames :
           /\ f.file # NoFile
           /\ \A i \in DOMAIN f.trace :
                  IsCall(f.trace[i], "multipartUpload") =>
                      /\ f.trace[i].data # NoFile
                      /\ \E j \in 1..(i - 1) :
                             /\ IsReturn(f.trace[j], "verifyJobParams")
                             /\ f.trace[j].data.verified

\* the upload of the recording is under way while the slot has been emptied
C10_Witness ==
    /\ filePath = NoFile
    /\ \E f \in Frames : f.pc = "upload" /\ f.file \in RecordedFiles

---------------------------------------------------------------------------
(* C11 *)

GetThrew(f) == Has(f, LAMBDA e: IsThrowOf(e, "getHealthScribeJob"))

\* C11: if getHealthScribeJob throws in a polling iteration, the run is
\* aborted without retry: after the throw it calls neither
\* getHealthScribeJob nor startMedicalScribeJob again, it posts exactly one
\* notification, of type error with value 0 and the thrown message (the only
\* error notification of the run), resets isSubmitting to false, never
\* navigates, and re-raises the error.
C11_PollThrowAborts ==
    \A f \in Frames :
        GetThrew(f) =>
            LET i == Idx(f, LAMBDA e: IsThrowOf(e, "getHealthScribeJob"))
                msg == f.trace[i].data
                rest == Since(f, i)
                posted == PostsIn(rest)
            IN  /\ \A j \in DOMAIN rest :
                       /\ ~IsCall(rest[j], "getHealthScribeJob")
                       /\ ~IsCall(rest[j], "startMedicalScribeJob")
                       /\ rest[j].kind # "throw"
                /\ Len(posted) = 1
                /\ posted[1].data.type = "error"
                /\ posted[1].data.value = 0
                /\ posted[1].data.additionalInfo =
                       <<"Error submitting job to HealthScribe: ", msg>>
                /\ Count(f.trace, IsErrorPost) = 1
                /\ rest[Len(rest)] = Set("isSubmitting", FALSE)
                /\ isSubmitting = FALSE
                /\ NavigationsIn(f.trace) = <<>>
                /\ f.pc = "done" /\ f.exit = "throw" /\ f.error = msg

\* the third status fetch of a run threw
C11_Witness ==
    \E f \in Frames :
        /\ GetThrew(f)
        /\ Calls(f, "getHealthScribeJob") = 3
        /\ f.result = "jobError"

---------------------------------------------------------------------------
(* C12 *)

StartReturnedWithStatus(f) ==
    Has(f, LAMBDA e: IsReturn(e, "startMedicalScribeJob") /\ Truthy(e.data))

IsPollPost(e) == IsPost(e) /\ e.data.additionalInfo = <<"Transcribing audio...">>

\* C12: the polling loop has no exit on a remote failure status: a run whose
\* polls so far all returned a status other than COMPLETED (FAILED
\* included), with no call having thrown, is still in the loop, sleeping
\* before its next fetch or awaiting it; it has posted one in-progress
\* notification per status received and no notification of type success or
\* error, it has not navigated, and isSubmitting is true.
C12_NoExitOnFailedStatus ==
    \A f \in Frames :
        (StartReturnedWithStatus(f) /\ ~GetThrew(f) /\ f.jobstatus # "COMPLETED") =>
            /\ f.pc \in {"sleep", "get"}
            /\ Count(f.trace, IsPollPost) =
                   Calls(f, "getHealthScribeJob") - (IF f.pc = "get" THEN 1 ELSE 0)
            /\ \A i \in DOMAIN f.trace :
                   IsPost(f.trace[i]) => f.trace[i].data.type = "none"
            /\ NavigationsIn(f.trace) = <<>>
            /\ isSubmitting = TRUE

\* the run fetches the status again after a poll has returned FAILED
C12_Witness ==
    \E f \in Frames :
        /\ f.pc = "get"
        /\ f.jobstatus = "FAILED"
        /\ Calls(f, "getHealthScribeJob") >= 3

---------------------------------------------------------------------------
(* C13 *)

ThrowingCalls == {"multipartUpload", "startMedicalScribeJob", "getHealthScribeJob"}

\* C13: a run posts a notification of type error only in the catch of a
\* thrown error: every error notification directly follows a throw of
\* multipartUpload, startMedicalScribeJob or getHealthScribeJob, and a run in
\* which nothing has thrown has posted none, whatever job status it has
\* observed.
C13_FailedOnlyViaThrow ==
    \A f \in Frames :
        /\ \A i \in DOMAIN f.trace :
               IsErrorPost(f.trace[i]) =>
                   /\ i > 1
                   /\ f.trace[i - 1].kind = "throw"
                   /\ f.trace[i - 1].what \in ThrowingCalls
        /\ (\A i \in DOMAIN f.trace : f.trace[i].kind # "throw") =>
               /\ Count(f.trace, IsErrorPost) = 0
               /\ f.result \notin {"uploadError", "jobError"}

\* a poll has returned FAILED and the run goes on without an error
\* notification
C13_Witness ==
    \E f \in Frames :
        /\ f.jobstatus = "FAILED"
        /\ f.pc = "sleep"
        /\ Count(f.trace, IsErrorPost) = 0

---------------------------------------------------------------------------
(* C14 *)

\* the ids of the notifications a run has posted
PostedIds(f) == {f.trace[i].data.id : i \in {j \in DOMAIN f.trace : IsPost(f.trace[j])}}

\* C14: all notifications posted by one run of submitJob carry the same id,
\* and that id is made from the run's job name.
C14_OneIdKeyedByJobName ==
    \A f \in Frames :
        /\ Cardinality(PostedIds(f)) <= 1
        /\ \A id \in PostedIds(f) : id[2] = f.jobName

---------------------------------------------------------------------------
(* C15 *)

EndedInFailure(f) == f.pc = "done" /\ f.result \in {"uploadError", "jobError"}

\* C15: once a run has ended in a failure (upload error, job-creation error
\* or polling error), every entry of the sink under an id the run posted to
\* shows the terminal error notification; none is left in progress.
C15_NoEntryLeftInProgress ==
    \A f \in Frames :
        EndedInFailure(f) =>
            \A k \in DOMAIN flashbarItems :
                flashbarItems[k].id \in PostedIds(f) => flashbarItems[k].type = "error"

---------------------------------------------------------------------------
(* C16 *)

\* notifications to try the upsert with: every id the component can use
SampleNotifications ==
    {Notif(id, "none", 0, "sample", <<>>) :
        id \in {TranscribingAudio} \cup
               {<<prefix, name>> : prefix \in {"New HealthScribe Job: ", "New Job: "},
                                   name \in GeneratedNames \cup TypedNames}}

\* C16: the sink holds at most one entry per id; an upsert with an id that
\* is present replaces that entry where it stands and leaves the length and
\* the other entries as they are, an upsert with a new id appends the entry
\* at the end and leaves the entries before it as they are.
C16_UpsertKeyedById ==
    /\ \A i, j \in DOMAIN flashbarItems :
           i # j => flashbarItems[i].id # flashbarItems[j].id
    /\ \A n \in SampleNotifications :
           LET after == updateProgressBar(flashbarItems, n)
               present == \E i \in DOMAIN flashbarItems : flashbarItems[i].id = n.id
           IN  /\ present =>
                      /\ Len(after) = Len(flashbarItems)
                      /\ \A i \in DOMAIN flashbarItems :
                             after[i] = IF flashbarItems[i].id = n.id
                                        THEN n ELSE flashbarItems[i]
               /\ ~present =>
                      /\ Len(after) = Len(flashbarItems) + 1
                      /\ after[Len(after)] = n
                      /\ \A i \in DOMAIN flashbarItems : after[i] = flashbarItems[i]
               /\ \A i, j \in DOMAIN after : i # j => after[i].id # after[j].id

\* the sink holds two entries: the initial one, untouched, and after it the
\* one the upload callback appended, replaced since by a polling notification
C16_Witness ==
    /\ Len(flashbarItems) = 2
    /\ flashbarItems[1].description = "Uploading Audio in progress..."
    /\ IsPollPost(Post(flashbarItems[2]))
    /\ \E f \in Frames : f.uploadEvents > 0

---------------------------------------------------------------------------
(* C17 *)

\* C17: for a progress event whose total is 0 or absent, whatever its
\* loaded, the value s3UploadCallback posts is in [0, 99].
C17_UploadValueInRangeWithoutTotal ==
    \A f \in Frames :
        \A i \in DOMAIN f.trace :
            (IsCall(f.trace[i], "s3UploadCallback") /\ f.trace[i].data.total = 0) =>
                /\ IsPost(f.trace[i + 1])
                /\ f.trace[i + 1].data.value \in 0..UploadScale

---------------------------------------------------------------------------
(* C18 *)

\* the payloads the run has handed to verifyJobParams or startMedicalScribeJob
Payloads(f) ==
    {f.trace[i].data :
        i \in {j \in DOMAIN f.trace : \/ IsCall(f.trace[j], "verifyJobParams")
                                      \/ IsCall(f.trace[j], "startMedicalScribeJob")}}

\* C18: with channel identification selected and channel1 either CLINICIAN
\* or PATIENT, the payload has exactly two channel definitions: ChannelId 0
\* with the role chosen for channel1 and ChannelId 1 with the other role;
\* the two roles differ.
C18_ChannelRolesComplementary ==
    \A f \in Frames :
        f.audioSelection = "channelIdentification" =>
            \A p \in Payloads(f) :
                /\ "ChannelDefinitions" \in DOMAIN p
                /\ Len(p.ChannelDefinitions) = 2
                /\ p.ChannelDefinitions[1].ChannelId = 0
                /\ p.ChannelDefinitions[1].ParticipantRole =
                       f.audioDetails.channelIdentification.channel1
                /\ p.ChannelDefinitions[2].ChannelId = 1
                /\ p.ChannelDefinitions[2].ParticipantRole \in ParticipantRoles
                /\ p.ChannelDefinitions[2].ParticipantRole #
                       p.ChannelDefinitions[1].ParticipantRole

\* a job was created with channel 0 given to the patient
C18_Witness ==
    \E f \in Frames :
        /\ f.audioSelection = "channelIdentification"
        /\ f.audioDetails.channelIdentification.channel1 = "PATIENT"
        /\ Calls(f, "startMedicalScribeJob") = 1

---------------------------------------------------------------------------
(* C20 *)

\* the value of the k-th polling notification, in closed form
CounterAt(k) ==
    IF ProgressStart + (k - 1) * ProgressStep >= ProgressCeiling
    THEN ProgressCeiling
    ELSE ProgressStart + (k - 1) * ProgressStep

\* C20: the k-th in-progress notification of the polling loop carries the
\* counter's k-th value (start, plus the step per poll, clamped at the
\* ceiling): the values never decrease from one poll to the next, never
\* exceed the ceiling and stay below 100; a notification with value 100 is
\* posted in the loop only once a poll has returned COMPLETED.
C20_PollingCounterClamped ==
    \A f \in Frames :
        LET p == SelectSeq(f.trace, IsPollPost)
        IN  /\ \A k \in DOMAIN p :
                   /\ p[k].data.type = "none"
                   /\ p[k].data.value = CounterAt(k)
                   /\ p[k].data.value <= ProgressCeiling
                   /\ p[k].data.value < 100
                   /\ k > 1 => p[k - 1].data.value <= p[k].data.value
            /\ (StartReturnedWithStatus(f) /\ f.jobstatus # "COMPLETED") =>
                   \A i \in DOMAIN f.trace :
                       IsPost(f.trace[i]) => f.trace[i].data.value < 100

\* a run of the variant with the higher ceiling is still polling after two
\* notifications at the ceiling
C20_Witness ==
    \E f \in Frames :
        LET p == SelectSeq(f.trace, IsPollPost)
        IN  /\ variant = 2
            /\ InFlight(f)
            /\ f.jobstatus = "FAILED"
            /\ Len(p) >= 2
            /\ p[Len(p) - 1].data.value = ProgressCeiling
            /\ p[Len(p)].data.value = ProgressCeiling

---------------------------------------------------------------------------
(* C21 *)

\* the number of status fetches among the first i events of the run
FetchesUpTo(f, i) == Cardinality({j \in 1..i : IsCall(f.trace[j], "getHealthScribeJob")})

\* every fetch is for the run's job name and directly follows a delay of
\* its own, the first one too; what directly follows its response is one
\* in-progress notification
IterationShape(f) ==
    \A i \in DOMAIN f.trace :
        IsCall(f.trace[i], "getHealthScribeJob") =>
            /\ f.trace[i].data = f.jobName
            /\ i > 2
            /\ f.trace[i - 2] = Call("sleep", PollDelay)
            /\ f.trace[i - 1] = Return("sleep", PollDelay)
            /\ i + 1 \in DOMAIN f.trace =>
                   \/ IsThrowOf(f.trace[i + 1], "getHealthScribeJob")
                   \/ /\ IsReturn(f.trace[i + 1], "getHealthScribeJob")
                      /\ IsPollPost(f.trace[i + 2])
                      /\ ~IsPollPost(f.trace[i + 3])

\* C21 as stated: in every iteration the delay comes first, then one status
\* fetch for the run's job name, then the counter advances, then one
\* in-progress notification is posted that carries the advanced value.
C21_PostsAdvancedValue ==
    \A f \in Frames :
        /\ IterationShape(f)
        /\ \A i \in DOMAIN f.trace :
               IsPollPost(f.trace[i]) =>
                   f.trace[i].data.value = CounterAt(FetchesUpTo(f, i) + 1)

\* C21 amended: in every iteration the delay comes first, then one status
\* fetch for the run's job name, then one in-progress notification is
\* posted that carries the counter's value from before this iteration's
\* advance (the first one carries the start value), then the counter
\* advances.
C21_PostsValueBeforeAdvance ==
    \A f \in Frames :
        /\ IterationShape(f)
        /\ \A i \in DOMAIN f.trace :
               IsPollPost(f.trace[i]) =>
                   f.trace[i].data.value = CounterAt(FetchesUpTo(f, i))
        /\ f.pc \in {"sleep", "get"} =>
               f.progress = CounterAt(Count(f.trace, IsPollPost) + 1)

\* the run has posted the start value, has advanced and sleeps before its
\* second fetch
C21_Witness ==
    \E f \in Frames :
        /\ f.pc = "sleep"
        /\ Count(f.trace, IsPollPost) = 1
        /\ f.progress = ProgressStart + ProgressStep

---------------------------------------------------------------------------
(* C22 *)

\* C22: a run calls getHealthScribeJob only if the response of
\* startMedicalScribeJob carried a job status, and then it has posted,
\* between that response and its first status fetch, exactly one
\* notification, with value 20 and neither type error nor type success.
C22_SubmittedNoticeBeforeFirstFetch ==
    \A f \in Frames :
        Calls(f, "getHealthScribeJob") >= 1 =>
            LET iRet == Idx(f, LAMBDA e: IsReturn(e, "startMedicalScribeJob"))
                iGet == Idx(f, LAMBDA e: IsCall(e, "getHealthScribeJob"))
                posted == PostsIn(SubSeq(f.trace, iRet + 1, iGet - 1))
            IN  /\ StartReturnedWithStatus(f)
                /\ 0 < iRet /\ iRet < iGet
                /\ Len(posted) = 1
                /\ posted[1].data.value = SubmittedValue
                /\ posted[1].data.type \notin {"error", "success"}

\* the run awaits its first status fetch
C22_Witness ==
    \E f \in Frames :
        /\ f.pc = "get"
        /\ Calls(f, "getHealthScribeJob") = 1
        /\ f.uploadEvents = 0

---------------------------------------------------------------------------
(* C23 *)

\* C23: a run navigates at most once; when it does, a poll has returned
\* COMPLETED, the success notification with value 100 has been posted before,
\* the target is /conversation/<the run's job name>, and the run fetches
\* no status afterwards.
C23_NavigationOnceWhenCompleted ==
    \A f \in Frames :
        /\ Len(NavigationsIn(f.trace)) <= 1
        /\ \A i \in DOMAIN f.trace :
               IsCall(f.trace[i], "navigate") =>
                   /\ f.jobstatus = "COMPLETED"
                   /\ f.trace[i].data = <<"/conversation/", f.jobName>>
                   /\ \E j \in 1..(i - 1) :
                          /\ IsPost(f.trace[j])
                          /\ f.trace[j].data.type = "success"
                          /\ f.trace[j].data.value = 100
                   /\ \A j \in (i + 1)..Len(f.trace) :
                          ~IsCall(f.trace[j], "getHealthScribeJob")
                   /\ f.pc = "done"

\* the run has navigated after three status fetches
C23_Witness ==
    \E f \in Frames :
        /\ Len(NavigationsIn(f.trace)) = 1
        /\ Calls(f, "getHealthScribeJob") = 3

---------------------------------------------------------------------------
(* C27 *)

IsTerminalPost(e) ==
    /\ IsPost(e)
    /\ \/ e.data.type = "success" /\ e.data.value = 100
       \/ e.data.type = "error" /\ e.data.value = 0
       \/ e.data.type = "info"

\* C27: once a run has posted a terminal notification (success with value
\* 100, error with value 0, or the info notification of an unconfirmed
\* submission), it posts nothing more; no error notification follows a
\* success notification.
C27_NothingAfterTerminal ==
    \A f \in Frames :
        \A i \in DOMAIN f.trace :
            IsTerminalPost(f.trace[i]) =>
                \A j \in (i + 1)..Len(f.trace) : ~IsPost(f.trace[j])

\* the run has ended after its success notification
C27_Witness ==
    \E f \in Frames :
        /\ Completed(f)
        /\ IsTerminalPost(PostsIn(f.trace)[Len(PostsIn(f.trace))])
        /\ f.uploadEvents > 0

---------------------------------------------------------------------------
(* C28 *)

\* C28: the job name of a run is the one the form showed at submit: the
\* name in the payloads handed to verifyJobParams and startMedicalScribeJob,
\* the name of every status fetch, the name in every notification id that
\* has one and the name in the navigation path are the run's job name,
\* whatever the job-name field shows meanwhile.
C28_JobNameFixedAtSubmit ==
    \A f \in Frames :
        /\ \A n \in DOMAIN attempts : n = f.n => attempts[n].jobName = f.jobName
        /\ \A p \in Payloads(f) : p.MedicalScribeJobName = f.jobName
        /\ \A i \in DOMAIN f.trace :
               /\ IsCall(f.trace[i], "getHealthScribeJob") => f.trace[i].data = f.jobName
               /\ IsCall(f.trace[i], "navigate") =>
                      f.trace[i].data = <<"/conversation/", f.jobName>>
               /\ (IsPost(f.trace[i]) /\ f.trace[i].data.id # TranscribingAudio) =>
                      f.trace[i].data.id[2] = f.jobName

\* the job-name field was edited while the run was in flight, and the run
\* has completed under the name it was submitted with
C28_Witness ==
    \E f \in Frames :
        /\ Completed(f)
        /\ f.jobName # jobName
        /\ f.jobName \in GeneratedNames

---------------------------------------------------------------------------
(* C26 *)

IsSetSubmitting(e) == e.kind = "set" /\ e.what = "isSubmitting"

\* C26: isSubmitting is true exactly while a run of submitJob is in flight:
\* a run sets it to true as its first step and does not touch it again
\* while it uploads, creates the job and polls; at each of its exits, by
\* return or by re-raise, it has set it to false.
C26_SubmittingExactlyInFlight ==
    /\ isSubmitting <=> (\E f \in Frames : InFlight(f))
    /\ \A f \in Frames :
           LET sets == SelectSeq(f.trace, IsSetSubmitting)
           IN  /\ f.trace[1] = Set("isSubmitting", TRUE)
               /\ InFlight(f) => Len(sets) = 1
               /\ ~InFlight(f) =>
                      /\ Len(sets) = 2
                      /\ sets[2].data = FALSE
                      /\ f.exit \in {"return", "throw"}

\* a second run is polling after the first one ended in a job error
C26_Witness ==
    /\ Len(attempts) = 2
    /\ attempts[1].result = "jobError"
    /\ isSubmitting
    /\ \E f \in Frames : f.pc = "get"

---------------------------------------------------------------------------
(* C25 *)

IsCallbackEvent(e) == IsCall(e, "s3UploadCallback")
InRange(ev) == 0 < ev.loaded /\ ev.loaded <= ev.total

\* C25: for a progress event with 0 < loaded <= total the posted value is in
\* [0, 99] and is 99 when loaded = total; from the event's loaded up to its
\* total the value never decreases as loaded grows and never exceeds 99; and
\* of two such events of one upload with the same total, the later one, if
\* its loaded is not smaller, has posted a value that is not smaller.
C25_UploadValueMonotone ==
    \A f \in Frames :
        \A i \in DOMAIN f.trace :
            (IsCallbackEvent(f.trace[i]) /\ InRange(f.trace[i].data)) =>
                LET ev == f.trace[i].data
                    v == f.trace[i + 1].data.value
                IN  /\ IsPost(f.trace[i + 1])
                    /\ v \in 0..UploadScale
                    /\ ev.loaded = ev.total => v = UploadScale
                    /\ \A l \in ev.loaded..(ev.total - 1) :
                           /\ v <= UploadValue(l + 1, ev.total)
                           /\ UploadValue(l, ev.total) <= UploadValue(l + 1, ev.total)
                           /\ UploadValue(l + 1, ev.total) < 100
                    /\ \A j \in (i + 1)..Len(f.trace) :
                           (/\ IsCallbackEvent(f.trace[j])
                            /\ f.trace[j].data.total = ev.total
                            /\ f.trace[j].data.loaded >= ev.loaded) =>
                               f.trace[j + 1].data.value >= v

\* the callback has reported the whole body as loaded
C25_Witness ==
    \E f \in Frames :
        \E i \in DOMAIN f.trace :
            /\ IsCallbackEvent(f.trace[i])
            /\ f.trace[i].data.loaded = MaxLoaded
            /\ f.trace[i].data.total = MaxLoaded
            /\ f.trace[i + 1].data.value = UploadScale

---------------------------------------------------------------------------
(* C29 *)

\* C29: the upload slot follows the most recent of the three events: a step
\* that delivers a recording puts the recorded file into the slot, whatever
\* was there; any other step that changes the slot puts a selected file
\* there or empties it; a run of submitJob never changes the slot; and with
\* the slot empty the submit control is disabled, whether or not a recorded
\* file still exists.
C29_SlotFollowsLastEvent ==
    [][/\ recordedAudio' # recordedAudio => filePath' = recordedAudio'
       /\ (recordedAudio' = recordedAudio /\ filePath' # filePath) =>
              filePath' \in SelectedFiles \cup {NoFile}
       /\ runs' # runs => (filePath' = filePath /\ recordedAudio' = recordedAudio)
       /\ filePath' = NoFile => ~SubmitEnabled']_vars

\* the slot was emptied after a second recording: the recorded file still
\* exists and the control is disabled
C29_Witness ==
    /\ filePath = NoFile
    /\ recordedAudio = "rec2.wav"
    /\ ~isSubmitting
    /\ ~SubmitEnabled

---------------------------------------------------------------------------
(* C24 *)

PassedValidation == \E f \in Frames : f.pc = "upload"

Succeeded ==
    /\ isSubmitting = FALSE
    /\ \E f \in Frames :
           /\ Completed(f)
           /\ Has(f, LAMBDA e: IsPost(e) /\ e.data.type = "success" /\ e.data.value = 100)
           /\ Has(f, LAMBDA e: IsCall(e, "navigate"))

\* C24: a run that has passed validation, whose upload resolves, whose job
\* creation returns a status, in which no call throws and whose remote job
\* becomes COMPLETED, eventually has posted the success notification,
\* navigated and reset isSubmitting to false.
C24_EventuallyCompleted == PassedValidation ~> Succeeded

\* the run has completed at the last status fetch the remote job needed
C24_Witness ==
    /\ Succeeded
    /\ \E f \in Frames : Calls(f, "getHealthScribeJob") = MaxLivePolls

====
